---- MODULE Spec2Model ----
(***************************************************************************)
(* Reverse FFMI calculator: the SmoothSlider range input control           *)
(* (src/src/components/SmoothSlider.tsx) and the Home host view            *)
(* (src/unnamed/part_000).                                                 *)
(*                                                                         *)
(* Numbers.  The program computes in IEEE doubles; the model computes the  *)
(* same expressions exactly, in fixed point.  Every quantity is an integer *)
(* count of a unit small enough that all values the program produces are   *)
(* whole counts:                                                           *)
(*   centimeters   1/CmScale cm      (178 cm      = 17800)                 *)
(*   inches        1/InchScale inch  (70.5 inches = 35814)                 *)
(*   percent/FFMI  1/DeciScale       (12.5        = 125)                   *)
(* A quotient that is not a whole count (the pointer's raw value, the      *)
(* argument of Math.round) is carried as numerator and denominator.        *)
(* Rounding errors of the last binary digit are outside the model.         *)
(***************************************************************************)
EXTENDS Integers, Sequences, FiniteSets, TLC

VARIABLES
    isImperial,       \* Home: useState(true)
    heightCm,         \* Home: useState(178), in 1/CmScale cm
    bodyFatPercent,   \* Home: useState(12), in 1/DeciScale percent
    normalizedFFMI,   \* Home: useState(20), in 1/DeciScale
    lastOp,           \* history: the last action on the height or the unit
    before,           \* history: isImperial and heightCm before that action
    trip,             \* history: the run of unit switches now under way
    wheelRun,         \* history: the run of wheel events now under way
    props,            \* SmoothSlider: min, max, step and value as supplied
    isDragging,       \* SmoothSlider: useState(false)
    isHovering,       \* SmoothSlider: useState(false)
    listeners,        \* SmoothSlider: its listeners attached to the document
    buttonHeld,       \* environment: the button pressed on the track is down
    lastEvent,        \* history: the last event the control's page saw
    calls,            \* history: the arguments of onChange during that event
    result,           \* Home: useMemo(calculateTargetWeight(...)), as rendered
    category,         \* Home: getFFMICategory(normalizedFFMI).label, as rendered
    snapOut           \* the results of the two snapToStep on props

homeVars == <<isImperial, heightCm, bodyFatPercent, normalizedFFMI>>
histVars == <<lastOp, before, trip, wheelRun>>
sliderVars == <<props, isDragging, isHovering, listeners, buttonHeld,
                lastEvent, calls>>
outVars == <<result, category, snapOut>>
vars == <<homeVars, histVars, sliderVars, outVars>>

-----------------------------------------------------------------------------
(* Units *)

CmScale == 10 * 10      \* counts per cm: inchesToCm of a half inch is 1.27
InchScale == 2 * 254    \* counts per inch: cmToInches of 0.01 cm is 1/254
DeciScale == 2 * 5      \* counts per percent and per FFMI point

(* Bounds of the environment: the rendered track and the pointer. *)
TrackLeft == 2
TrackWidth == 4
Overshoot == 1

-----------------------------------------------------------------------------
(* JavaScript arithmetic *)

MathMin(a, b) == IF a < b THEN a ELSE b
MathMax(a, b) == IF a > b THEN a ELSE b

\* Math.round(n / d) for d > 0: the integer nearest to n/d, a tie going up.
MathRound(n, d) == (2 * n + d) \div (2 * d)

-----------------------------------------------------------------------------
(* SmoothSlider: pure part.  cfg = [min, max, step], value = the value prop *)

TrackMounted == TRUE

Keys == {"ArrowRight", "ArrowUp", "ArrowLeft", "ArrowDown", "Home", "End",
         "PageUp", "PageDown", "Tab"}

DeltaYs == {-1, 0, 1}

ClientXs == (TrackLeft - Overshoot) .. (TrackLeft + TrackWidth + Overshoot)

\* clamp without its upper bound
clampNoMax(cfg, val) == MathMax(cfg.min, val)

clamp(cfg, val) == MathMin(cfg.max, MathMax(cfg.min, val))

\* snapToStep of the control with a tie going to the lower grid point
snapToStepCtlTiesDown(cfg, n, d) ==
    LET steps == 0 - MathRound(cfg.min * d - n, cfg.step * d)
    IN  clamp(cfg, cfg.min + steps * cfg.step)

\* snapToStep of the control, applied to the quotient n / d
snapToStepCtl(cfg, n, d) ==
    LET steps == MathRound(n - cfg.min * d, cfg.step * d)
    IN  clamp(cfg, cfg.min + steps * cfg.step)

getValueFromPosition(cfg, value, clientX) ==
    IF ~TrackMounted THEN value
    ELSE LET rawNum == cfg.min * TrackWidth
                         + (clientX - TrackLeft) * (cfg.max - cfg.min)
         IN  snapToStepCtl(cfg, rawNum, TrackWidth)

\* handleWheel with the two directions exchanged
handleWheelReversed(cfg, value, deltaY) ==
    LET direction == IF deltaY > 0 THEN 1 ELSE -1
        newValue == snapToStepCtl(cfg, value + direction * cfg.step, 1)
    IN  <<newValue>>

\* The values handleWheel passes to onChange, in order.
handleWheel(cfg, value, deltaY) ==
    LET direction == IF deltaY > 0 THEN -1 ELSE 1
        newValue == snapToStepCtl(cfg, value + direction * cfg.step, 1)
    IN  <<newValue>>

\* handleKeyDown moving one step, not ten, on PageUp and PageDown
handleKeyDownPageOneStep(cfg, value, key) ==
    CASE key \in {"ArrowRight", "ArrowUp", "PageUp"} ->
             <<snapToStepCtl(cfg, value + cfg.step, 1)>>
      [] key \in {"ArrowLeft", "ArrowDown", "PageDown"} ->
             <<snapToStepCtl(cfg, value - cfg.step, 1)>>
      [] key = "Home" -> <<cfg.min>>
      [] key = "End" -> <<cfg.max>>
      [] OTHER -> <<>>

\* The values handleKeyDown passes to onChange, in order.
handleKeyDown(cfg, value, key) ==
    CASE key \in {"ArrowRight", "ArrowUp"} ->
             <<snapToStepCtl(cfg, value + cfg.step, 1)>>
      [] key \in {"ArrowLeft", "ArrowDown"} ->
             <<snapToStepCtl(cfg, value - cfg.step, 1)>>
      [] key = "Home" -> <<cfg.min>>
      [] key = "End" -> <<cfg.max>>
      [] key = "PageUp" -> <<snapToStepCtl(cfg, value + cfg.step * 10, 1)>>
      [] key = "PageDown" -> <<snapToStepCtl(cfg, value - cfg.step * 10, 1)>>
      [] OTHER -> <<>>

Range(s) == {s[i] : i \in DOMAIN s}

\* Every value a control with these props can pass to onChange on one event.
Proposals(cfg, value) ==
    UNION {Range(handleKeyDown(cfg, value, k)) : k \in Keys}
      \cup UNION {Range(handleWheel(cfg, value, dy)) : dy \in DeltaYs}
      \cup {getValueFromPosition(cfg, value, x) : x \in ClientXs}

-----------------------------------------------------------------------------
(* Exact arithmetic for the calculator.  Its products exceed the 32-bit    *)
(* integers of TLC, so a natural number is the sequence of its digits in   *)
(* base Base, least significant first, without leading zeros; an integer   *)
(* is a sign and a magnitude; a number of the program is a fraction        *)
(* [n, d] of an integer and a positive natural, not reduced.               *)

Base == 100 * 100

RECURSIVE BigFromNat(_)
BigFromNat(n) ==
    IF n = 0 THEN <<>> ELSE <<n % Base>> \o BigFromNat(n \div Base)

RECURSIVE BigNorm(_)
BigNorm(a) ==
    IF a = <<>> THEN <<>>
    ELSE IF a[Len(a)] = 0 THEN BigNorm(SubSeq(a, 1, Len(a) - 1))
    ELSE a

Digit(a, i) == IF i <= Len(a) THEN a[i] ELSE 0

RECURSIVE BigAddFrom(_, _, _, _)
BigAddFrom(a, b, i, carry) ==
    IF i > Len(a) /\ i > Len(b)
    THEN IF carry = 0 THEN <<>> ELSE <<carry>>
    ELSE LET t == Digit(a, i) + Digit(b, i) + carry
         IN  <<t % Base>> \o BigAddFrom(a, b, i + 1, t \div Base)

BigAdd(a, b) == BigAddFrom(a, b, 1, 0)

\* a - b for a >= b
RECURSIVE BigSubFrom(_, _, _, _)
BigSubFrom(a, b, i, borrow) ==
    IF i > Len(a) THEN <<>>
    ELSE LET t == Digit(a, i) - Digit(b, i) - borrow
         IN  IF t < 0
             THEN <<t + Base>> \o BigSubFrom(a, b, i + 1, 1)
             ELSE <<t>> \o BigSubFrom(a, b, i + 1, 0)

BigSub(a, b) == BigNorm(BigSubFrom(a, b, 1, 0))

RECURSIVE BigMulDigitFrom(_, _, _, _)
BigMulDigitFrom(a, m, i, carry) ==
    IF i > Len(a)
    THEN IF carry = 0 THEN <<>> ELSE <<carry>>
    ELSE LET t == a[i] * m + carry
         IN  <<t % Base>> \o BigMulDigitFrom(a, m, i + 1, t \div Base)

BigShift(a) == IF a = <<>> THEN <<>> ELSE <<0>> \o a

RECURSIVE BigMulFrom(_, _, _)
BigMulFrom(a, b, j) ==
    IF j > Len(b) \/ a = <<>> THEN <<>>
    ELSE BigAdd(IF b[j] = 0 THEN <<>> ELSE BigMulDigitFrom(a, b[j], 1, 0),
                BigShift(BigMulFrom(a, b, j + 1)))

BigMul(a, b) == BigMulFrom(a, b, 1)

\* a < b, from the most significant digit down
RECURSIVE BigLessFrom(_, _, _)
BigLessFrom(a, b, i) ==
    IF i = 0 THEN FALSE
    ELSE IF a[i] # b[i] THEN a[i] < b[i]
    ELSE BigLessFrom(a, b, i - 1)

BigLess(a, b) ==
    IF Len(a) # Len(b) THEN Len(a) < Len(b) ELSE BigLessFrom(a, b, Len(a))

\* Integers: [neg, mag], zero never negative
IntOf(n) == IF n < 0 THEN [neg |-> TRUE, mag |-> BigFromNat(-n)]
            ELSE [neg |-> FALSE, mag |-> BigFromNat(n)]

IntNeg(x) == IF x.mag = <<>> THEN x ELSE [neg |-> ~x.neg, mag |-> x.mag]

IntAdd(x, y) ==
    IF x.neg = y.neg THEN [neg |-> x.neg, mag |-> BigAdd(x.mag, y.mag)]
    ELSE IF x.mag = y.mag THEN [neg |-> FALSE, mag |-> <<>>]
    ELSE IF BigLess(x.mag, y.mag)
         THEN [neg |-> y.neg, mag |-> BigSub(y.mag, x.mag)]
         ELSE [neg |-> x.neg, mag |-> BigSub(x.mag, y.mag)]

IntSub(x, y) == IntAdd(x, IntNeg(y))

IntMul(x, y) ==
    LET m == BigMul(x.mag, y.mag)
    IN  [neg |-> (m # <<>>) /\ (x.neg # y.neg), mag |-> m]

IntLess(x, y) == IntSub(x, y).neg

\* Numbers: the fraction n / d
Num(n, d) == [n |-> IntOf(n), d |-> BigFromNat(d)]

Den(x) == [neg |-> FALSE, mag |-> x.d]

NumAdd(x, y) ==
    [n |-> IntAdd(IntMul(x.n, Den(y)), IntMul(y.n, Den(x))),
     d |-> BigMul(x.d, y.d)]

NumSub(x, y) ==
    [n |-> IntSub(IntMul(x.n, Den(y)), IntMul(y.n, Den(x))),
     d |-> BigMul(x.d, y.d)]

NumMul(x, y) == [n |-> IntMul(x.n, y.n), d |-> BigMul(x.d, y.d)]

\* x / y for y # 0
NumDiv(x, y) ==
    [n |-> IF y.n.neg THEN IntNeg(IntMul(x.n, Den(y)))
                      ELSE IntMul(x.n, Den(y)),
     d |-> BigMul(x.d, y.n.mag)]

NumLess(x, y) == IntLess(IntMul(x.n, Den(y)), IntMul(y.n, Den(x)))
NumEq(x, y) == IntMul(x.n, Den(y)) = IntMul(y.n, Den(x))
NumLeq(x, y) == ~NumLess(y, x)
NumAbs(x) == [n |-> [neg |-> FALSE, mag |-> x.n.mag], d |-> x.d]

-----------------------------------------------------------------------------
(* Home: the calculator *)

\* calculateTargetWeight multiplying by the lean fraction, not dividing
calculateTargetWeightTimes(cm, bodyFat, ffmiNorm) ==
    LET heightMeters == NumDiv(Num(cm, CmScale), Num(100, 1))
        ffmi == NumSub(Num(ffmiNorm, DeciScale),
                       NumMul(Num(61, 10),
                              NumSub(Num(18, 10), heightMeters)))
        leanMassKg == NumMul(ffmi, NumMul(heightMeters, heightMeters))
        weightKg == NumMul(leanMassKg,
                           NumSub(Num(1, 1),
                                  NumDiv(Num(bodyFat, DeciScale), Num(100, 1))))
        fatMassKg == NumSub(weightKg, leanMassKg)
    IN  [rendered |-> TRUE, ffmi |-> ffmi, weightKg |-> weightKg,
         leanMassKg |-> leanMassKg, fatMassKg |-> fatMassKg]

\* calculateTargetWeight with the height not squared
calculateTargetWeightLinear(cm, bodyFat, ffmiNorm) ==
    LET heightMeters == NumDiv(Num(cm, CmScale), Num(100, 1))
        ffmi == NumSub(Num(ffmiNorm, DeciScale),
                       NumMul(Num(61, 10),
                              NumSub(Num(18, 10), heightMeters)))
        leanMassKg == NumMul(ffmi, heightMeters)
        weightKg == NumDiv(leanMassKg,
                           NumSub(Num(1, 1),
                                  NumDiv(Num(bodyFat, DeciScale), Num(100, 1))))
        fatMassKg == NumSub(weightKg, leanMassKg)
    IN  [rendered |-> TRUE, ffmi |-> ffmi, weightKg |-> weightKg,
         leanMassKg |-> leanMassKg, fatMassKg |-> fatMassKg]

\* cm, percent and FFMI are held in 1/CmScale and 1/DeciScale
calculateTargetWeight(cm, bodyFat, ffmiNorm) ==
    LET heightCmNum == Num(cm, CmScale)
        bodyFatNum == Num(bodyFat, DeciScale)
        normalizedNum == Num(ffmiNorm, DeciScale)
        heightMeters == NumDiv(heightCmNum, Num(100, 1))
        ffmi == NumSub(normalizedNum,
                       NumMul(Num(61, 10),
                              NumSub(Num(18, 10), heightMeters)))
        leanMassKg == NumMul(ffmi, NumMul(heightMeters, heightMeters))
        weightKg == NumDiv(leanMassKg,
                           NumSub(Num(1, 1), NumDiv(bodyFatNum, Num(100, 1))))
        fatMassKg == NumSub(weightKg, leanMassKg)
    IN  [rendered |-> TRUE, ffmi |-> ffmi, weightKg |-> weightKg,
         leanMassKg |-> leanMassKg, fatMassKg |-> fatMassKg]

-----------------------------------------------------------------------------
(* Home: helpers *)

inchesToCm(inches) == (inches * 254 * CmScale) \div (100 * InchScale)
\* cmToInches with 2.5 cm to the inch
cmToInchesRough(cm) == (cm * 100 * InchScale) \div (250 * CmScale)

cmToInches(cm) == (cm * 100 * InchScale) \div (254 * CmScale)

\* snapToStep with Math.floor for Math.round
snapToStepFloor(value, min, step) ==
    LET steps == (value - min) \div step
    IN  min + steps * step

\* snapToStep without the multiplication by step
snapToStepUnscaled(value, min, step) ==
    LET steps == MathRound(value - min, step)
    IN  min + steps

snapToStep(value, min, step) ==
    LET steps == MathRound(value - min, step)
    IN  min + steps * step

Category(label, color, description) ==
    [label |-> label, color |-> color, description |-> description]

\* getFFMICategory with <= for <: each band closed on the right
getFFMICategoryClosed(ffmi) ==
    IF ffmi <= 18 * DeciScale
    THEN Category("Below Average", "text-gray-400", "Below average muscle mass")
    ELSE IF ffmi <= 20 * DeciScale
    THEN Category("Average", "text-blue-400", "Average muscle development")
    ELSE IF ffmi <= 22 * DeciScale
    THEN Category("Above Average", "text-green-400",
                  "Noticeable muscle development")
    ELSE IF ffmi <= 23 * DeciScale
    THEN Category("Excellent", "text-yellow-400",
                  "Excellent natural development")
    ELSE IF ffmi <= 25 * DeciScale
    THEN Category("Superior", "text-orange-400", "Near natural limit")
    ELSE IF ffmi <= 26 * DeciScale
    THEN Category("Natural Limit", "text-red-400",
                  "At or near genetic ceiling")
    ELSE Category("Elite", "text-purple-400",
                  "Likely enhanced or genetic outlier")

getFFMICategory(ffmi) ==
    IF ffmi < 18 * DeciScale
    THEN Category("Below Average", "text-gray-400", "Below average muscle mass")
    ELSE IF ffmi < 20 * DeciScale
    THEN Category("Average", "text-blue-400", "Average muscle development")
    ELSE IF ffmi < 22 * DeciScale
    THEN Category("Above Average", "text-green-400",
                  "Noticeable muscle development")
    ELSE IF ffmi < 23 * DeciScale
    THEN Category("Excellent", "text-yellow-400",
                  "Excellent natural development")
    ELSE IF ffmi < 25 * DeciScale
    THEN Category("Superior", "text-orange-400", "Near natural limit")
    ELSE IF ffmi < 26 * DeciScale
    THEN Category("Natural Limit", "text-red-400",
                  "At or near genetic ceiling")
    ELSE Category("Elite", "text-purple-400",
                  "Likely enhanced or genetic outlier")

heightConfig ==
    IF isImperial
    THEN [value |-> cmToInches(heightCm),
          min |-> 60 * InchScale, max |-> 84 * InchScale,
          step |-> InchScale \div 2]
    ELSE [value |-> heightCm,
          min |-> 152 * CmScale, max |-> 213 * CmScale, step |-> CmScale]

bodyFatConfig ==
    [value |-> bodyFatPercent,
     min |-> 5 * DeciScale, max |-> 35 * DeciScale, step |-> DeciScale \div 2]

ffmiConfig ==
    [value |-> normalizedFFMI,
     min |-> 15 * DeciScale, max |-> 30 * DeciScale, step |-> DeciScale \div 2]

-----------------------------------------------------------------------------
(* SmoothSlider: the component.  Each action is one event, run to          *)
(* completion: the handler, the re-render and the effects of the render.   *)

TrackXs == TrackLeft .. (TrackLeft + TrackWidth)

\* handleMouseDown that starts the drag and proposes nothing
handleMouseDownSilent(cfg, value, clientX) == <<>>

handleMouseDown(cfg, value, clientX) ==
    <<getValueFromPosition(cfg, value, clientX)>>

handleMouseMove(cfg, value, dragging, clientX) ==
    IF ~dragging THEN <<>>
    ELSE <<getValueFromPosition(cfg, value, clientX)>>

\* useEffect on isDragging: the listeners the document holds after a render
dragEffect(dragging) ==
    IF dragging THEN {"mousemove", "mouseup"} ELSE {}

\* listeners attached to the track: only events over the track arrive
listenerOnTrack(clientX) == clientX \in TrackXs

\* document.addEventListener: the document sees the event wherever it happens
listenerReceives(clientX) == TRUE

Event(type, key, clientX, deltaY) ==
    [type |-> type, key |-> key, clientX |-> clientX, deltaY |-> deltaY]

\* what the control renders of the value: the fill and thumb position as
\* numerator and denominator of the percentage, and aria-valuenow
percentage == <<(props.value - props.min) * 100, props.max - props.min>>
displayed == [percentage |-> percentage, valuenow |-> props.value]

\* a control that keeps the value itself: the key moves what it displays
KeyDownUncontrolled(key) ==
    /\ calls' = handleKeyDown(props, props.value, key)
    /\ props' = IF calls' = <<>> THEN props
                ELSE [props EXCEPT !.value = calls'[1]]
    /\ lastEvent' = Event("keydown", key, 0, 0)
    /\ UNCHANGED <<isDragging, isHovering, listeners, buttonHeld>>

KeyDown(key) ==
    /\ calls' = handleKeyDown(props, props.value, key)
    /\ lastEvent' = Event("keydown", key, 0, 0)
    /\ UNCHANGED <<props, isDragging, isHovering, listeners, buttonHeld>>

Wheel(deltaY) ==
    /\ calls' = handleWheel(props, props.value, deltaY)
    /\ lastEvent' = Event("wheel", "", 0, deltaY)
    /\ UNCHANGED <<props, isDragging, isHovering, listeners, buttonHeld>>

MouseDown(clientX) ==
    /\ ~buttonHeld
    /\ buttonHeld' = TRUE
    /\ isDragging' = TRUE
    /\ calls' = handleMouseDown(props, props.value, clientX)
    /\ listeners' = dragEffect(isDragging')
    /\ lastEvent' = Event("mousedown", "", clientX, 0)
    /\ UNCHANGED <<props, isHovering>>

MouseMove(clientX) ==
    /\ calls' = IF "mousemove" \in listeners /\ listenerReceives(clientX)
                THEN handleMouseMove(props, props.value, isDragging, clientX)
                ELSE <<>>
    /\ lastEvent' = Event("mousemove", "", clientX, 0)
    /\ UNCHANGED <<props, isDragging, isHovering, listeners, buttonHeld>>

MouseUp(clientX) ==
    /\ buttonHeld
    /\ buttonHeld' = FALSE
    /\ isDragging' = IF "mouseup" \in listeners /\ listenerReceives(clientX)
                     THEN FALSE
                     ELSE isDragging
    /\ listeners' = dragEffect(isDragging')
    /\ calls' = <<>>
    /\ lastEvent' = Event("mouseup", "", clientX, 0)
    /\ UNCHANGED <<props, isHovering>>

\* The button comes up and no mouseup event reaches the document.
PointerLost ==
    /\ buttonHeld
    /\ buttonHeld' = FALSE
    /\ calls' = <<>>
    /\ lastEvent' = Event("pointerlost", "", 0, 0)
    /\ UNCHANGED <<props, isDragging, isHovering, listeners>>

MouseEnter ==
    /\ ~isHovering
    /\ isHovering' = TRUE
    /\ calls' = <<>>
    /\ lastEvent' = Event("mouseenter", "", 0, 0)
    /\ UNCHANGED <<props, isDragging, listeners, buttonHeld>>

MouseLeave ==
    /\ isHovering
    /\ isHovering' = FALSE
    /\ calls' = <<>>
    /\ lastEvent' = Event("mouseleave", "", 0, 0)
    /\ UNCHANGED <<props, isDragging, listeners, buttonHeld>>

\* The caller stores the proposed value and renders the control with it.
CallerAccepts ==
    /\ calls # <<>>
    /\ props' = [props EXCEPT !.value = calls[Len(calls)]]
    /\ calls' = <<>>
    /\ lastEvent' = Event("render", "", 0, 0)
    /\ UNCHANGED <<isDragging, isHovering, listeners, buttonHeld>>

\* The caller renders the control with a value of its own.
CallerSupplies(v) ==
    /\ v # props.value
    /\ props' = [props EXCEPT !.value = v]
    /\ calls' = <<>>
    /\ lastEvent' = Event("render", "", 0, 0)
    /\ UNCHANGED <<isDragging, isHovering, listeners, buttonHeld>>

(* The configurations and values the control is checked with: every step   *)
(* up to MaxStep, every min up to MaxMin, and for each every max from      *)
(* GridSteps - 1 steps above min (exclusive) to GridSteps steps above min, *)
(* so that max is on the grid in one configuration per step and off it in  *)
(* the others.                                                             *)
MaxMin == 1
MaxStep == 2
GridSteps == 11
Margin == 1

Configs ==
    {[min |-> lo, max |-> lo + GridSteps * st - r, step |-> st] :
        lo \in 0 .. MaxMin, st \in 1 .. MaxStep, r \in 0 .. (MaxStep - 1)}

CallerValues(cfg) == (cfg.min - Margin) .. (cfg.max + Margin)

SliderIdle ==
    /\ isDragging = FALSE
    /\ isHovering = FALSE
    /\ listeners = dragEffect(FALSE)
    /\ buttonHeld = FALSE
    /\ lastEvent = Event("render", "", 0, 0)
    /\ calls = <<>>

-----------------------------------------------------------------------------
(* Home: actions *)

HomeInit ==
    /\ isImperial = TRUE
    /\ heightCm = 178 * CmScale
    /\ bodyFatPercent = 12 * DeciScale
    /\ normalizedFFMI = 20 * DeciScale

\* heightConfig.onChange, called by the height control
HeightChange ==
    \E v \in Proposals(heightConfig, heightConfig.value) :
        /\ heightCm' = IF isImperial THEN inchesToCm(v) ELSE v
        /\ UNCHANGED <<isImperial, bodyFatPercent, normalizedFFMI>>

\* setBodyFatPercent, called by the body fat control
BodyFatChange ==
    \E v \in Proposals(bodyFatConfig, bodyFatConfig.value) :
        /\ bodyFatPercent' = v
        /\ UNCHANGED <<isImperial, heightCm, normalizedFFMI>>

\* setNormalizedFFMI, called by the FFMI control
FFMIChange ==
    \E v \in Proposals(ffmiConfig, ffmiConfig.value) :
        /\ normalizedFFMI' = v
        /\ UNCHANGED <<isImperial, heightCm, bodyFatPercent>>

\* The height handleUnitToggle stores when it switches the unit system.
toggledHeightCm(toImperial, cm) ==
    IF toImperial
    THEN LET inches == cmToInches(cm)
             snappedInches ==
                 snapToStep(inches, 60 * InchScale, InchScale \div 2)
             clampedInches ==
                 MathMax(60 * InchScale, MathMin(84 * InchScale, snappedInches))
         IN  inchesToCm(clampedInches)
    ELSE LET snappedCm == snapToStep(cm, 152 * CmScale, CmScale)
             clampedCm ==
                 MathMax(152 * CmScale, MathMin(213 * CmScale, snappedCm))
         IN  clampedCm

\* handleUnitToggle that also puts the body fat back to its initial value
handleUnitToggleResets(toImperial) ==
    IF toImperial = isImperial
    THEN UNCHANGED <<isImperial, heightCm, bodyFatPercent, normalizedFFMI>>
    ELSE /\ heightCm' = toggledHeightCm(toImperial, heightCm)
         /\ isImperial' = toImperial
         /\ bodyFatPercent' = 12 * DeciScale
         /\ UNCHANGED normalizedFFMI

\* handleUnitToggle without the early return on the active unit
handleUnitToggleAlways(toImperial) ==
    /\ heightCm' = toggledHeightCm(toImperial, heightCm)
    /\ isImperial' = toImperial
    /\ UNCHANGED <<bodyFatPercent, normalizedFFMI>>

handleUnitToggle(toImperial) ==
    IF toImperial = isImperial
    THEN UNCHANGED <<isImperial, heightCm, bodyFatPercent, normalizedFFMI>>
    ELSE /\ heightCm' = toggledHeightCm(toImperial, heightCm)
         /\ isImperial' = toImperial
         /\ UNCHANGED <<bodyFatPercent, normalizedFFMI>>

\* click on the switch itself
ClickSwitch == handleUnitToggle(~isImperial)
\* click on the Imperial label
ClickImperial == handleUnitToggle(TRUE)
\* click on the Metric label
ClickMetric == handleUnitToggle(FALSE)

\* no run of unit switches under way
NoTrip == [len |-> 0, isImperial |-> TRUE, heightCm |-> 0]

\* no run of wheel events under way
NoRun == [n |-> 0, dir |-> 0, start |-> 0]

HistIdle ==
    /\ lastOp = "init"
    /\ before = [isImperial |-> TRUE, heightCm |-> 178 * CmScale]
    /\ trip = NoTrip
    /\ wheelRun = NoRun

(* trip: the unit and the height before the first of the unit switches     *)
(* that followed one another with no change of the height in between, and  *)
(* how many they are; the switch after the second starts the next trip.    *)
Record(op) ==
    /\ lastOp' = op
    /\ before' = [isImperial |-> isImperial, heightCm |-> heightCm]
    /\ trip' = IF op = "toggle"
               THEN IF trip.len = 1
                    THEN [trip EXCEPT !.len = 2]
                    ELSE [len |-> 1, isImperial |-> isImperial,
                          heightCm |-> heightCm]
               ELSE IF op = "toggleSame" THEN trip ELSE NoTrip
    /\ UNCHANGED wheelRun

RecordToggle(toImperial) ==
    Record(IF toImperial = isImperial THEN "toggleSame" ELSE "toggle")

SliderUnmounted ==
    /\ props = [min |-> 0, max |-> 1, step |-> 1, value |-> 0]
    /\ SliderIdle

-----------------------------------------------------------------------------
(* Spec: the Home view, its four state cells under every change the three  *)
(* controls can report and every click on the unit switch.  A control      *)
(* reports a value through onChange only; Proposals is every value its     *)
(* handlers can pass there for the props Home renders it with (a press and *)
(* a move during a drag propose the same values).  The drag and hover      *)
(* flags of a control are followed in SpecSlider, the rendered result in   *)
(* SpecCalculator; here they stay as they are.                             *)

NotRendered ==
    result = [rendered |-> FALSE, ffmi |-> Num(0, 1), weightKg |-> Num(0, 1),
              leanMassKg |-> Num(0, 1), fatMassKg |-> Num(0, 1)]

NotClassified == category = Category("", "", "")

NotSnapped == snapOut = [applied |-> FALSE, host |-> 0, again |-> 0,
                         control |-> 0]

OutIdle == NotRendered /\ NotClassified /\ NotSnapped

Init == HomeInit /\ HistIdle /\ SliderUnmounted /\ OutIdle

Next ==
    \/ HeightChange /\ UNCHANGED <<histVars, sliderVars, outVars>>
    \/ BodyFatChange /\ UNCHANGED <<histVars, sliderVars, outVars>>
    \/ FFMIChange /\ UNCHANGED <<histVars, sliderVars, outVars>>
    \/ ClickSwitch /\ UNCHANGED <<histVars, sliderVars, outVars>>
    \/ ClickImperial /\ UNCHANGED <<histVars, sliderVars, outVars>>
    \/ ClickMetric /\ UNCHANGED <<histVars, sliderVars, outVars>>

Spec == Init /\ [][Next]_vars

(* SpecUnits: the height and the unit system alone, with the record of the *)
(* last action.  No action on them reads the body fat or the FFMI cell.    *)

NextUnits ==
    \/ HeightChange /\ Record("height") /\ UNCHANGED <<sliderVars, outVars>>
    \/ ClickSwitch /\ RecordToggle(~isImperial) /\ UNCHANGED <<sliderVars, outVars>>
    \/ ClickImperial /\ RecordToggle(TRUE) /\ UNCHANGED <<sliderVars, outVars>>
    \/ ClickMetric /\ RecordToggle(FALSE) /\ UNCHANGED <<sliderVars, outVars>>

SpecUnits == Init /\ [][NextUnits]_vars

(* SpecSlider: one SmoothSlider under every configuration of Configs, every *)
(* event, and a caller that stores the proposed value or one of its own.    *)

InitSlider ==
    /\ HomeInit
    /\ HistIdle
    /\ \E cfg \in Configs : \E v \in CallerValues(cfg) :
           props = [min |-> cfg.min, max |-> cfg.max, step |-> cfg.step,
                    value |-> v]
    /\ SliderIdle
    /\ OutIdle

NextSlider ==
    \/ \E key \in Keys : KeyDown(key) /\ UNCHANGED <<homeVars, histVars, outVars>>
    \/ \E dy \in DeltaYs : Wheel(dy) /\ UNCHANGED <<homeVars, histVars, outVars>>
    \/ \E x \in TrackXs : MouseDown(x) /\ UNCHANGED <<homeVars, histVars, outVars>>
    \/ \E x \in ClientXs : MouseMove(x) /\ UNCHANGED <<homeVars, histVars, outVars>>
    \/ \E x \in ClientXs : MouseUp(x) /\ UNCHANGED <<homeVars, histVars, outVars>>
    \/ PointerLost /\ UNCHANGED <<homeVars, histVars, outVars>>
    \/ MouseEnter /\ UNCHANGED <<homeVars, histVars, outVars>>
    \/ MouseLeave /\ UNCHANGED <<homeVars, histVars, outVars>>
    \/ CallerAccepts /\ UNCHANGED <<homeVars, histVars, outVars>>
    \/ \E v \in CallerValues(props) :
           CallerSupplies(v) /\ UNCHANGED <<homeVars, histVars, outVars>>

SpecSlider == InitSlider /\ [][NextSlider]_vars

(* SpecCalculator: the calculator on the initial inputs and on inputs     *)
(* spread over the three ranges of the controls, in both unit systems.     *)

CalcSamples == 8

\* index i of CalcSamples over a grid of n steps
Sample(i, n) == (i * n) \div CalcSamples

CalcHeightsMetric ==
    {152 * CmScale + Sample(i, 213 - 152) * CmScale : i \in 0 .. CalcSamples}

CalcHeightsImperial ==
    {inchesToCm(60 * InchScale
                  + Sample(i, 2 * (84 - 60)) * (InchScale \div 2)) :
        i \in 0 .. CalcSamples}

CalcBodyFats ==
    {5 * DeciScale + Sample(i, 2 * (35 - 5)) * (DeciScale \div 2) :
        i \in 0 .. CalcSamples}

CalcFFMIs ==
    {15 * DeciScale + Sample(i, 2 * (30 - 15)) * (DeciScale \div 2) :
        i \in 0 .. CalcSamples}

InitCalculator ==
    /\ \/ HomeInit
       \/ /\ isImperial \in BOOLEAN
          /\ heightCm \in IF isImperial THEN CalcHeightsImperial
                                       ELSE CalcHeightsMetric
          /\ bodyFatPercent \in CalcBodyFats
          /\ normalizedFFMI \in CalcFFMIs
    /\ HistIdle
    /\ SliderUnmounted
    /\ OutIdle

\* the render: result = calculateTargetWeight(heightCm, bodyFatPercent, ...)
Render ==
    /\ ~result.rendered
    /\ result' = calculateTargetWeight(heightCm, bodyFatPercent,
                                       normalizedFFMI)
    /\ UNCHANGED <<homeVars, histVars, sliderVars, category, snapOut>>

NextCalculator == Render

SpecCalculator == InitCalculator /\ [][NextCalculator]_vars

(* SpecWheel: one SmoothSlider under wheel events alone, with the record   *)
(* of the run under way: the wheel events of one direction, each but the   *)
(* last followed by the caller storing the value it proposed.              *)

MaxWheelRun == 13

\* the direction of a wheel event: -1 for a positive deltaY, 1 for a
\* negative one, 0 when deltaY has no sign
WheelSign(deltaY) == IF deltaY > 0 THEN -1 ELSE IF deltaY < 0 THEN 1 ELSE 0

Continues(deltaY) ==
    /\ wheelRun.n > 0
    /\ wheelRun.dir = WheelSign(deltaY)
    /\ calls = <<>>

RecordWheel(deltaY) ==
    /\ Continues(deltaY) => wheelRun.n < MaxWheelRun
    /\ wheelRun' = IF WheelSign(deltaY) = 0 THEN NoRun
                   ELSE IF Continues(deltaY)
                   THEN [wheelRun EXCEPT !.n = @ + 1]
                   ELSE [n |-> 1, dir |-> WheelSign(deltaY),
                         start |-> props.value]
    /\ UNCHANGED <<lastOp, before, trip>>

InitWheel == InitSlider

NextWheel ==
    \/ \E dy \in DeltaYs :
           Wheel(dy) /\ RecordWheel(dy) /\ UNCHANGED <<homeVars, outVars>>
    \/ CallerAccepts /\ UNCHANGED <<homeVars, histVars, outVars>>
    \/ \E v \in CallerValues(props) :
           /\ CallerSupplies(v)
           /\ wheelRun' = NoRun
           /\ UNCHANGED <<homeVars, lastOp, before, trip, outVars>>

SpecWheel == InitWheel /\ [][NextWheel]_vars

(* SpecCategory: getFFMICategory on every tenth of an FFMI point from      *)
(* CategorySpan points below the first boundary to CategorySpan points     *)
(* above the last.                                                         *)

CategorySpan == 20

CategoryFFMIs ==
    ((18 - CategorySpan) * DeciScale) .. ((26 + CategorySpan) * DeciScale)

InitCategory ==
    /\ isImperial = TRUE
    /\ heightCm = 178 * CmScale
    /\ bodyFatPercent = 12 * DeciScale
    /\ normalizedFFMI \in CategoryFFMIs
    /\ HistIdle
    /\ SliderUnmounted
    /\ OutIdle

\* const category = getFFMICategory(normalizedFFMI)
Classify ==
    /\ category.label = ""
    /\ category' = getFFMICategory(normalizedFFMI)
    /\ UNCHANGED <<homeVars, histVars, sliderVars, result, snapOut>>

NextCategory == Classify

SpecCategory == InitCategory /\ [][NextCategory]_vars

(* SpecSnap: the snapToStep of Home and the snapToStep of SmoothSlider on  *)
(* the same value, min and step: under every configuration of Configs with *)
(* every value up to SnapMargin steps outside the range, and under the two *)
(* configurations and the values handleUnitToggle calls snapToStep with.   *)

SnapMargin == 2

SnapValues(cfg) ==
    (cfg.min - SnapMargin * cfg.step) .. (cfg.max + SnapMargin * cfg.step)

\* the heights Home can hold in imperial mode: the initial one and the grid
ImperialHeightsCm ==
    {178 * CmScale} \cup
    {inchesToCm(60 * InchScale + k * (InchScale \div 2)) :
        k \in 0 .. 2 * (84 - 60)}

\* the heights Home can hold in metric mode
MetricHeightsCm == {(152 + k) * CmScale : k \in 0 .. (213 - 152)}

ToggleSnaps ==
    {[min |-> 152 * CmScale, max |-> 213 * CmScale, step |-> CmScale,
      value |-> cm] : cm \in ImperialHeightsCm}
    \cup
    {[min |-> 60 * InchScale, max |-> 84 * InchScale,
      step |-> InchScale \div 2, value |-> cmToInches(cm)] :
        cm \in MetricHeightsCm}

InitSnap ==
    /\ HomeInit
    /\ HistIdle
    /\ \/ \E cfg \in Configs : \E v \in SnapValues(cfg) :
              props = [min |-> cfg.min, max |-> cfg.max, step |-> cfg.step,
                       value |-> v]
       \/ props \in ToggleSnaps
    /\ SliderIdle
    /\ OutIdle

ApplySnap ==
    /\ ~snapOut.applied
    /\ snapOut' =
           LET host == snapToStep(props.value, props.min, props.step)
           IN  [applied |-> TRUE,
                host |-> host,
                again |-> snapToStep(host, props.min, props.step),
                control |-> snapToStepCtl(props, props.value, 1)]
    /\ UNCHANGED <<homeVars, histVars, sliderVars, result, category>>

NextSnap == ApplySnap

SpecSnap == InitSnap /\ [][NextSnap]_vars

(* SpecToggle: the three clicks on the unit switch alone, from the initial *)
(* state and from every height Home can hold in either unit with body fat  *)
(* and FFMI spread over their ranges, with the record of the last click.   *)

InitToggle ==
    /\ \/ HomeInit
       \/ /\ isImperial \in BOOLEAN
          /\ heightCm \in IF isImperial THEN ImperialHeightsCm
                                       ELSE MetricHeightsCm
          /\ bodyFatPercent \in CalcBodyFats
          /\ normalizedFFMI \in CalcFFMIs
    /\ HistIdle
    /\ SliderUnmounted
    /\ OutIdle

NextToggle ==
    \/ ClickSwitch /\ RecordToggle(~isImperial)
                   /\ UNCHANGED <<sliderVars, outVars>>
    \/ ClickImperial /\ RecordToggle(TRUE)
                     /\ UNCHANGED <<sliderVars, outVars>>
    \/ ClickMetric /\ RecordToggle(FALSE)
                   /\ UNCHANGED <<sliderVars, outVars>>

SpecToggle == InitToggle /\ [][NextToggle]_vars

-----------------------------------------------------------------------------
(* Properties *)

\* v is the point of the grid min, min + step, ... nearest to n / d, a tie
\* going to the upper point, moved to the nearer of min and max when it lies
\* outside [min, max].
NearestGridClamped(v, n, d, cfg) ==
    LET q == (n - cfg.min * d) \div (cfg.step * d)
    IN  \E k \in (q - 1) .. (q + 1) :
            LET g == cfg.min + k * cfg.step
            IN  /\ 2 * (g * d - n) <= cfg.step * d
                /\ 2 * (n - g * d) < cfg.step * d
                /\ v = IF g < cfg.min THEN cfg.min
                       ELSE IF g > cfg.max THEN cfg.max ELSE g

InRange(v, cfg) == cfg.min <= v /\ v <= cfg.max
OnGrid(v, cfg) == (v - cfg.min) % cfg.step = 0

\* the raw value of a pointer position, over TrackWidth
RawNum(clientX) ==
    props.min * TrackWidth + (clientX - TrackLeft) * (props.max - props.min)

(* C1: every value the control passes to onChange lies in [min, max] and  *)
(* is min plus a whole number of steps, for every configuration with      *)
(* min < max and step > 0.                                                 *)
C1_OnChangeInRangeOnGrid ==
    \A i \in DOMAIN calls : InRange(calls[i], props) /\ OnGrid(calls[i], props)

(* C2: the stored height lies in [152, 213] cm in every reachable state,  *)
(* in imperial mode as in metric mode.                                     *)
C2_StoredHeightInMetricRange ==
    152 * CmScale <= heightCm /\ heightCm <= 213 * CmScale

imperialHeight == [min |-> 60 * InchScale, max |-> 84 * InchScale,
                   step |-> InchScale \div 2]
metricHeight == [min |-> 152 * CmScale, max |-> 213 * CmScale,
                 step |-> CmScale]

(* C3: right after a toggle that switches the unit system, the height in  *)
(* the target unit is the old height converted, snapped to the target     *)
(* grid and then clamped to the target range: it is in the range, on the  *)
(* grid, and the grid point nearest to the old height (or the bound);     *)
(* from metric 178 cm the result is 70.0 inches.                           *)
C3_ToggleSnapsThenClamps ==
    lastOp = "toggle" =>
        /\ isImperial # before.isImperial
        /\ IF isImperial
           THEN LET inches == cmToInches(heightCm)
                IN  /\ inchesToCm(inches) = heightCm
                    /\ InRange(inches, imperialHeight)
                    /\ OnGrid(inches, imperialHeight)
                    /\ NearestGridClamped(inches, cmToInches(before.heightCm),
                                          1, imperialHeight)
           ELSE /\ InRange(heightCm, metricHeight)
                /\ OnGrid(heightCm, metricHeight)
                /\ NearestGridClamped(heightCm, before.heightCm, 1,
                                      metricHeight)
        /\ (~before.isImperial /\ before.heightCm = 178 * CmScale)
               => cmToInches(heightCm) = 70 * InchScale

C3_Witness ==
    /\ lastOp = "toggle"
    /\ before = [isImperial |-> FALSE, heightCm |-> 178 * CmScale]
    /\ isImperial
    /\ cmToInches(heightCm) = 70 * InchScale

Scenario ==
    /\ result.rendered
    /\ heightCm = 178 * CmScale
    /\ bodyFatPercent = 12 * DeciScale
    /\ normalizedFFMI = 20 * DeciScale

Within(x, c, tol) == NumLeq(NumAbs(NumSub(x, c)), tol)

(* C4, as stated: for 178 cm, 12 % and FFMI 20 the calculator yields      *)
(* ffmi = 19.878, lean mass within 0.01 of 62.97, total weight within     *)
(* 0.05 of 71.56 and fat mass within 0.01 of 8.59.                         *)
C4_ScenarioAsStated ==
    Scenario =>
        /\ NumEq(result.ffmi, Num(19878, 1000))
        /\ Within(result.leanMassKg, Num(6297, 100), Num(1, 100))
        /\ Within(result.weightKg, Num(7156, 100), Num(5, 100))
        /\ Within(result.fatMassKg, Num(859, 100), Num(1, 100))

(* C4, amended: for 178 cm, 12 % and FFMI 20 the calculator yields        *)
(* ffmi = 19.878, lean mass within 0.01 of 62.98, total weight within     *)
(* 0.05 of 71.56 and fat mass within 0.01 of 8.59.                         *)
C4_ScenarioAmended ==
    Scenario =>
        /\ NumEq(result.ffmi, Num(19878, 1000))
        /\ Within(result.leanMassKg, Num(6298, 100), Num(1, 100))
        /\ Within(result.weightKg, Num(7156, 100), Num(5, 100))
        /\ Within(result.fatMassKg, Num(859, 100), Num(1, 100))

C4_Witness ==
    Scenario /\ NumLess(Num(6298, 100), result.leanMassKg)

(* C5: in every reachable state of the Home view the body fat lies in     *)
(* [5, 35] and the FFMI in [15, 30], both on the 0.5 grid, so that        *)
(* 1 - bodyFatPercent / 100 is positive and the body fat is never 100.    *)
C5_BodyFatAndFFMIBounded ==
    /\ InRange(bodyFatPercent, bodyFatConfig)
    /\ OnGrid(bodyFatPercent, bodyFatConfig)
    /\ InRange(normalizedFFMI, ffmiConfig)
    /\ OnGrid(normalizedFFMI, ffmiConfig)
    /\ 100 * DeciScale - bodyFatPercent > 0

C5_Witness ==
    /\ bodyFatPercent = 35 * DeciScale
    /\ normalizedFFMI = 15 * DeciScale
    /\ ~isImperial

(* C6: for every input of the calculator, lean mass plus fat mass is the  *)
(* total weight, and lean mass and fat mass are not negative.             *)
C6_MassesAddUpAndNonNegative ==
    result.rendered =>
        /\ NumEq(NumAdd(result.leanMassKg, result.fatMassKg), result.weightKg)
        /\ NumLeq(Num(0, 1), result.leanMassKg)
        /\ NumLeq(Num(0, 1), result.fatMassKg)

C6_Witness ==
    /\ result.rendered
    /\ heightCm = 213 * CmScale
    /\ bodyFatPercent = 35 * DeciScale
    /\ normalizedFFMI = 15 * DeciScale
    /\ NumLess(Num(0, 1), result.fatMassKg)

(* C7: a press on the track sets the drag flag and calls onChange once    *)
(* with the snapped, clamped value of the press position; a move while    *)
(* the drag flag is set calls onChange once with the value of the move    *)
(* position; a move while it is not set calls nothing; a release clears   *)
(* the flag and calls nothing.                                             *)
C7_DragProtocol ==
    /\ lastEvent.type = "mousedown" =>
           /\ isDragging
           /\ Len(calls) = 1
           /\ NearestGridClamped(calls[1], RawNum(lastEvent.clientX),
                                 TrackWidth, props)
    /\ (lastEvent.type = "mousemove" /\ isDragging) =>
           /\ Len(calls) = 1
           /\ NearestGridClamped(calls[1], RawNum(lastEvent.clientX),
                                 TrackWidth, props)
    /\ (lastEvent.type = "mousemove" /\ ~isDragging) => calls = <<>>
    /\ lastEvent.type = "mouseup" => (~isDragging /\ calls = <<>>)

C7_Witness ==
    /\ lastEvent.type = "mousemove"
    /\ isDragging
    /\ Len(calls) = 1
    /\ props.min < calls[1]
    /\ calls[1] < props.max
    /\ calls[1] # props.value

(* C8: a release ends the drag wherever in the document it happens, and   *)
(* from then on no move calls onChange until the next press on the track. *)
C8_GlobalRelease ==
    /\ [](/\ lastEvent.type = "mouseup" => (~isDragging /\ listeners = {})
          /\ (lastEvent.type = "mousemove" /\ ~isDragging) => calls = <<>>)
    /\ [][(~isDragging /\ isDragging') => lastEvent'.type = "mousedown"]_vars

C8_Witness ==
    /\ lastEvent.type = "mouseup"
    /\ lastEvent.clientX \notin TrackXs
    /\ ~isDragging
    /\ listeners = {}

(* C9: the document listeners are attached exactly while the drag flag is *)
(* set, and whenever no button is held for the control the drag flag is   *)
(* false and no listener is attached, however the button came up.          *)
C9_NoButtonNoDrag ==
    /\ (listeners # {}) <=> isDragging
    /\ ~buttonHeld => (~isDragging /\ listeners = {})

(* C10: ArrowRight/ArrowUp propose the value one step up, ArrowLeft/      *)
(* ArrowDown one step down, PageUp ten steps up, PageDown ten steps down,  *)
(* each snapped and clamped; Home proposes exactly min and End exactly    *)
(* max; any other key calls nothing.                                       *)
C10_KeyboardMapping ==
    lastEvent.type = "keydown" =>
        LET key == lastEvent.key
            v == props.value
            One(target) ==
                /\ Len(calls) = 1
                /\ NearestGridClamped(calls[1], target, 1, props)
        IN  CASE key \in {"ArrowRight", "ArrowUp"} -> One(v + props.step)
              [] key \in {"ArrowLeft", "ArrowDown"} -> One(v - props.step)
              [] key = "PageUp" -> One(v + 10 * props.step)
              [] key = "PageDown" -> One(v - 10 * props.step)
              [] key = "Home" -> calls = <<props.min>>
              [] key = "End" -> calls = <<props.max>>
              [] OTHER -> calls = <<>>

C10_Witness ==
    /\ lastEvent.type = "keydown"
    /\ lastEvent.key = "PageUp"
    /\ calls = <<props.value + 10 * props.step>>
    /\ calls[1] < props.max

(* C11: each wheel event calls onChange exactly once; when deltaY is      *)
(* positive the value proposed is the caller's value one step down, when   *)
(* it is negative one step up, snapped and clamped; and after n wheel      *)
(* events of one direction from a value on the grid and in range, the      *)
(* caller storing each proposed value, the value proposed is n steps from  *)
(* the first, or the bound when that lies beyond it.                       *)
C11_WheelOneStepPerEvent ==
    lastEvent.type = "wheel" =>
        /\ Len(calls) = 1
        /\ lastEvent.deltaY # 0 =>
               NearestGridClamped(
                   calls[1],
                   props.value + WheelSign(lastEvent.deltaY) * props.step,
                   1, props)
        /\ (/\ wheelRun.n > 0
            /\ OnGrid(wheelRun.start, props)
            /\ InRange(wheelRun.start, props)) =>
               LET target == wheelRun.start
                               + wheelRun.dir * wheelRun.n * props.step
               IN  calls[1] = IF target < props.min THEN props.min
                              ELSE IF target > props.max THEN props.max
                              ELSE target

C11_Witness ==
    /\ lastEvent.type = "wheel"
    /\ lastEvent.deltaY > 0
    /\ wheelRun.n = 3
    /\ OnGrid(wheelRun.start, props)
    /\ calls = <<wheelRun.start - 3 * props.step>>
    /\ calls[1] > props.min
    /\ props.value = calls[1] + props.step

(* C12: for every height h of 152 .. 213 cm held in metric mode,          *)
(* switching to imperial and straight back to metric, no change of the     *)
(* height in between, leaves exactly h stored.                             *)
C12_MetricRoundTripExact ==
    (trip.len = 2 /\ ~trip.isImperial) => heightCm = trip.heightCm

\* the seven bands, lowest first, and the FFMI each but the first starts at
BandLabels == <<"Below Average", "Average", "Above Average", "Excellent",
                "Superior", "Natural Limit", "Elite">>
BandStarts == <<18, 20, 22, 23, 25, 26>>

\* the band of ffmi: one more than the number of band starts at or below it
BandOf(ffmi) ==
    1 + Cardinality({i \in DOMAIN BandStarts : BandStarts[i] * DeciScale <= ffmi})

BandIndex(label) == CHOOSE i \in DOMAIN BandLabels : BandLabels[i] = label

(* C13: getFFMICategory gives every normalized FFMI exactly one of seven   *)
(* bands, closed on the left and open on the right: below 18 Below         *)
(* Average, [18, 20) Average, [20, 22) Above Average, [22, 23) Excellent,  *)
(* [23, 25) Superior, [25, 26) Natural Limit, 26 and above Elite; a        *)
(* boundary value is in the band that starts there, and the band never     *)
(* goes down when the FFMI goes up.                                        *)
C13_SevenBandsLeftClosed ==
    category.label # "" =>
        /\ \E i \in DOMAIN BandLabels : category.label = BandLabels[i]
        /\ category.label = BandLabels[BandOf(normalizedFFMI)]
        /\ \A lower \in CategoryFFMIs :
               lower <= normalizedFFMI =>
                   BandIndex(getFFMICategory(lower).label)
                       <= BandIndex(category.label)

C13_Witness ==
    /\ normalizedFFMI = 25 * DeciScale
    /\ category.label = "Natural Limit"

(* C14: the control keeps no value of its own.  No event of the control   *)
(* changes the value it was supplied or what it displays of it; the state  *)
(* it owns is the drag flag and the hover flag, the listeners following    *)
(* the drag flag; and what a key or wheel event proposed is what the same  *)
(* event proposes again as long as the caller supplies no new value.       *)
C14_ControlledInput ==
    /\ [][lastEvent'.type # "render" =>
              (props' = props /\ displayed' = displayed)]_vars
    /\ [](listeners = dragEffect(isDragging))
    /\ [](lastEvent.type = "keydown" =>
              calls = handleKeyDown(props, props.value, lastEvent.key))
    /\ [](lastEvent.type = "wheel" =>
              calls = handleWheel(props, props.value, lastEvent.deltaY))

C14_Witness ==
    /\ lastEvent.type = "keydown"
    /\ lastEvent.key = "ArrowRight"
    /\ calls = <<props.value + props.step>>
    /\ displayed.valuenow = props.value
    /\ isHovering

(* C15: for every value, min and step > 0, snapToStep applied to its own  *)
(* result gives that result again, the result minus min is a whole number  *)
(* of steps, and the result clamped lies in [min, max].                    *)
C15_SnapIdempotentOnGrid ==
    snapOut.applied =>
        /\ snapOut.again = snapOut.host
        /\ OnGrid(snapOut.host, props)
        /\ InRange(clamp(props, snapOut.host), props)

C15_Witness ==
    /\ snapOut.applied
    /\ ~OnGrid(props.value, props)
    /\ snapOut.host # props.value
    /\ snapOut.host > props.max
    /\ clamp(props, snapOut.host) = props.max

(* C16: a unit toggle leaves bodyFatPercent and normalizedFFMI as they    *)
(* are; a change of the body fat changes bodyFatPercent alone, a change of *)
(* the FFMI normalizedFFMI alone, a change of the height heightCm alone;   *)
(* and no change reported by a control changes the unit system: a step    *)
(* that changes it is a toggle, storing the height the toggle stores.      *)
C16_HostFrame ==
    [][/\ isImperial' # isImperial =>
              /\ UNCHANGED <<bodyFatPercent, normalizedFFMI>>
              /\ heightCm' = toggledHeightCm(isImperial', heightCm)
       /\ bodyFatPercent' # bodyFatPercent =>
              UNCHANGED <<isImperial, heightCm, normalizedFFMI>>
       /\ normalizedFFMI' # normalizedFFMI =>
              UNCHANGED <<isImperial, heightCm, bodyFatPercent>>
       /\ heightCm' # heightCm =>
              UNCHANGED <<bodyFatPercent, normalizedFFMI>>]_vars

C16_Witness ==
    /\ ~isImperial
    /\ heightCm # 178 * CmScale
    /\ bodyFatPercent = 35 * DeciScale
    /\ normalizedFFMI = 15 * DeciScale

(* C17: in every reachable state of Home, the initial state included,    *)
(* the value supplied to the height control is on the grid of the active   *)
(* unit (half inches from 60 in imperial mode, whole centimeters in metric *)
(* mode) and in the range of the active unit.                              *)
C17_HeightOnActiveGrid ==
    /\ InRange(heightConfig.value, heightConfig)
    /\ OnGrid(heightConfig.value, heightConfig)

(* C17, amended: the value supplied to the height control is on the grid   *)
(* and in the range of the active unit in every reachable state of Home    *)
(* but those that hold the initial height of 178 cm in imperial mode,      *)
(* where no height change and no unit switch has happened yet.             *)
C17_HeightOnActiveGridAfterInit ==
    (/\ (isImperial /\ heightCm = 178 * CmScale) => lastOp \in {"init", "toggleSame"}
     /\ ~(isImperial /\ heightCm = 178 * CmScale) =>
            /\ InRange(heightConfig.value, heightConfig)
            /\ OnGrid(heightConfig.value, heightConfig))

C17_Witness ==
    /\ isImperial
    /\ lastOp = "height"
    /\ heightCm # 178 * CmScale
    /\ heightConfig.value = 70 * InchScale + InchScale \div 2

(* C18: for every height on the half-inch grid in [60, 84] inches held   *)
(* in imperial mode, switching to metric and straight back to imperial, no *)
(* change of the height in between, leaves exactly that height stored.     *)
C18_ImperialRoundTripExact ==
    (/\ trip.len = 2
     /\ trip.isImperial
     /\ InRange(cmToInches(trip.heightCm), imperialHeight)
     /\ OnGrid(cmToInches(trip.heightCm), imperialHeight)) =>
        /\ isImperial
        /\ heightCm = trip.heightCm

C18_Witness ==
    /\ trip = [len |-> 2, isImperial |-> TRUE,
               heightCm |-> inchesToCm(75 * InchScale)]
    /\ lastOp = "toggle"
    /\ before = [isImperial |-> FALSE, heightCm |-> 191 * CmScale]
    /\ isImperial
    /\ heightCm = inchesToCm(75 * InchScale)

(* C19: the snapToStep of Home and the snapToStep of the control round    *)
(* alike: the result of Home's is the grid point nearest to the value, a   *)
(* tie going to the upper one, and the control's result is that point      *)
(* clamped to [min, max]; so 190.5 cm (75.0 inches), snapped to whole      *)
(* centimeters on the way to metric, gives 191 cm.                         *)
C19_SameRoundingRule ==
    snapOut.applied =>
        /\ OnGrid(snapOut.host, props)
        /\ 2 * (snapOut.host - props.value) <= props.step
        /\ 2 * (props.value - snapOut.host) < props.step
        /\ snapOut.control = IF snapOut.host < props.min THEN props.min
                             ELSE IF snapOut.host > props.max THEN props.max
                             ELSE snapOut.host
        /\ (/\ props.min = 152 * CmScale
            /\ props.step = CmScale
            /\ props.value = 190 * CmScale + CmScale \div 2) =>
               snapOut.host = 191 * CmScale

C19_Witness ==
    /\ snapOut.applied
    /\ props.min = 152 * CmScale
    /\ props.value = inchesToCm(75 * InchScale)
    /\ 2 * (snapOut.host - props.value) = props.step
    /\ snapOut.host = 191 * CmScale
    /\ snapOut.control = 191 * CmScale

(* C20: a wheel event whose deltaY is 0 does not move the value: it never *)
(* calls onChange with a value other than the caller's value, that value   *)
(* being on the grid and in range.                                         *)
C20_ZeroDeltaNoMove ==
    (/\ lastEvent.type = "wheel"
     /\ lastEvent.deltaY = 0
     /\ OnGrid(props.value, props)
     /\ InRange(props.value, props)) =>
        \A i \in DOMAIN calls : calls[i] = props.value

(* C21: a request for the unit system already active (a click on the     *)
(* Imperial label in imperial mode, on the Metric label in metric mode)    *)
(* leaves the stored height, the unit system, bodyFatPercent and           *)
(* normalizedFFMI as they are; the height is not snapped again.            *)
C21_SameUnitNoOp ==
    [][lastOp' = "toggleSame" =>
           UNCHANGED <<isImperial, heightCm, bodyFatPercent,
                       normalizedFFMI>>]_vars

C21_Witness ==
    /\ lastOp = "toggleSame"
    /\ isImperial
    /\ before = [isImperial |-> TRUE, heightCm |-> 178 * CmScale]
    /\ heightCm = 178 * CmScale
    /\ ~OnGrid(heightConfig.value, heightConfig)
    /\ bodyFatPercent = 35 * DeciScale
    /\ normalizedFFMI = 15 * DeciScale

====
